---- MODULE Spec2Model ----
(***************************************************************************)
(* Session-routing core of the support relay bot (src/bot.py).             *)
(*                                                                         *)
(* The bot runs with concurrent_updates(True): every inbound update is     *)
(* handled by its own asyncio task, and tasks interleave at every await.   *)
(* A handler is therefore modelled as a task record that moves from one    *)
(* await to the next; the code between two awaits is one atomic action.    *)
(* The outcome of every transport call (send, edit, delete, answer) is     *)
(* chosen by the environment when the await returns.                       *)
(*                                                                         *)
(* Time is counted in ticks.  The thresholds of the program (rate window,  *)
(* reply timeout, inactivity threshold) are constructor or call            *)
(* parameters; the model gives them small values in ticks.                 *)
(***************************************************************************)
EXTENDS Integers, Sequences, FiniteSets, TLC

\* ------------------------------------------------------------------ bounds
\* RateLimiter(max_messages=10, time_window=60), scaled down.
MaxMessages == 2
TimeWindow == 2
\* check_reply_timeouts(timeout_minutes=30) and
\* cleanup_inactive_users(hours_threshold=24), scaled down, in ticks.
ReplyTimeout == 2
InactiveThreshold == 2
\* strftime("%Y-%m-%d %H:%M:%S") keeps whole seconds: ticks per second.
TicksPerSecond == 2
\* The clock stops at MaxTime; the transport hands out message ids up to
\* MaxMsgId; the audit table holds at most MaxLog rows before new updates
\* that may log are held back.
MaxTime == 3
MaxMsgId == 3
MaxLog == 2

\* ------------------------------------------------------------- identities
\* ADMIN_IDS holds two operators by default; two further identities are
\* plain users.  Identities are positive integers, as Telegram ids are.
ADMIN_IDS == {1, 2}
Users == {3, 4}
Ids == ADMIN_IDS \cup Users
NoId == 0
NoTime == -1

\* Mutant of is_admin: nobody is turned away.
is_admin_anyone(user_id) == TRUE

\* return user_id in ADMIN_IDS
is_admin(user_id) == user_id \in ADMIN_IDS

\* message.text / photo, document, voice, video, audio / anything else.
ContentKinds == {"text", "photo", "sticker"}
Relayable(kind) ==
    kind \in {"text", "photo", "document", "voice", "video", "audio"}

\* ------------------------------------------------------------------ state
VARIABLES
    now,                   \* time.time() / datetime.now(), in ticks
    user_messages,         \* RateLimiter.user_messages: id -> list of times
    active_users,          \* UserManager.active_users: id -> UserSession
    admin_reply_targets,   \* dict admin -> user, as its list of items
    admin_reply_timeouts,  \* UserManager.admin_reply_timeouts: admin -> time
    message_history,       \* table message_history: {<<user_id, message_id>>}
    user_sessions,         \* table user_sessions: set of user_id
    admin_logs,            \* table admin_logs: rows in insertion order
    next_message_id,       \* next message id the transport hands out
    tasks,                 \* the handler tasks in flight, per slot
    ev,                    \* what the last step did (observation only)
    recent_admits,         \* per id, the admissions of the last TimeWindow
                           \* ticks, dropped as they age (observation only)
    last_reply_at          \* per admin, when and to whom the last reply
                           \* was delivered (observation only)

stores == <<user_messages, active_users, admin_reply_targets,
            admin_reply_timeouts, message_history, user_sessions, admin_logs>>
vars == <<now, user_messages, active_users, admin_reply_targets,
          admin_reply_timeouts, message_history, user_sessions, admin_logs,
          next_message_id, tasks, ev, recent_admits, last_reply_at>>

Slots == {1, 2}

\* -------------------------------------------------------- python dict/list
\* A dict whose iteration order matters is kept as the sequence of its
\* items <<key, value>> in insertion order.
RECURSIVE SeqKeys(_)
SeqKeys(d) == IF d = <<>> THEN {} ELSE {Head(d)[1]} \cup SeqKeys(Tail(d))

DictHas(d, k) == \E i \in 1..Len(d) : d[i][1] = k

DictGet(d, k) ==
    IF DictHas(d, k)
    THEN d[CHOOSE i \in 1..Len(d) : d[i][1] = k][2]
    ELSE NoId

\* Mutant of DictSet: the item is added without looking for the key.
DictSetAppend(d, k, v) == Append(d, <<k, v>>)

\* d[k] = v: an existing key keeps its place, a new key goes last.
DictSet(d, k, v) ==
    IF DictHas(d, k)
    THEN [i \in 1..Len(d) |-> IF d[i][1] = k THEN <<k, v>> ELSE d[i]]
    ELSE Append(d, <<k, v>>)

\* del d[k] guarded by "if k in d".
DictDel(d, k) == SelectSeq(d, LAMBDA p : p[1] # k)

\* A dict whose order is never observed is a function on its keys.
MapDel(f, k) == [x \in DOMAIN f \ {k} |-> f[x]]
MapSet(f, k, v) == [x \in DOMAIN f \cup {k} |-> IF x = k THEN v ELSE f[x]]

\* ------------------------------------------------------------ RateLimiter
\* Mutant of Prune: an admission exactly time_window old is kept.
PruneInclusive(times, t) == SelectSeq(times, LAMBDA x : t - x <= TimeWindow)

\* Mutant of Prune: nothing is ever dropped.
PruneNone(times, t) == times

\* user_times[:] = [t for t in user_times if now - t < self.time_window]
Prune(times, t) == SelectSeq(times, LAMBDA x : t - x < TimeWindow)

\* Mutant of Admits: one admission more than max_messages.
AdmitsInclusive(times, t) ==
    Len(SelectSeq(times, LAMBDA x : t - x < TimeWindow)) <= MaxMessages

\* len(user_times) < self.max_messages, on the pruned list
Admits(times, t) == Len(Prune(times, t)) < MaxMessages

\* Mutant of is_allowed_times: a denied attempt is recorded too.
is_allowed_times_recording(times, t) ==
    Append(SelectSeq(times, LAMBDA x : t - x < TimeWindow), t)

\* Mutant of is_allowed_times: a lost update, the admission overwrites the
\* list instead of extending it.
is_allowed_times_overwriting(times, t) ==
    IF Len(SelectSeq(times, LAMBDA x : t - x < TimeWindow)) < MaxMessages
    THEN <<t>>
    ELSE SelectSeq(times, LAMBDA x : t - x < TimeWindow)

\* The list after is_allowed returned: pruned, and with now appended when
\* the call admitted.
is_allowed_times(times, t) ==
    IF Admits(times, t) THEN Append(Prune(times, t), t) ELSE Prune(times, t)

\* ------------------------------------------------------------ UserManager
\* datetime.now().strftime("%Y-%m-%d %H:%M:%S"): the time cut to the second.
strftime(t) == t - (t % TicksPerSecond)
\* datetime.strptime(s, "%Y-%m-%d %H:%M:%S")
strptime(s) == s

\* Mutant of get_user_session: the session is made anew at every call.
get_user_session_fresh(sessions, user_id, t) ==
    MapSet(sessions, user_id,
           [active_since |-> strftime(t),
            message_ids |-> <<>>,
            conversation_data |-> {},
            last_activity |-> strftime(t)])

get_user_session(sessions, user_id, t) ==
    IF user_id \notin DOMAIN sessions
    THEN MapSet(sessions, user_id,
                [active_since |-> strftime(t),
                 message_ids |-> <<>>,
                 conversation_data |-> {},
                 last_activity |-> strftime(t)])
    ELSE [sessions EXCEPT ![user_id].last_activity = strftime(t)]

\* Mutant of throttled_return: the session is fetched before the rate check.
get_user_session_anyway(sessions, user_id, t) ==
    get_user_session(sessions, user_id, t)

\* if not rate_limiter.is_allowed(user.id): ... return.  handle_user_message
\* returns before it calls get_user_session: the sessions stay as they are.
throttled_return(sessions, user_id, t) == sessions

\* store_message_id: the session's list when the session is live, and the
\* message_history table in every case.
store_message_id_session(sessions, user_id, message_id) ==
    IF user_id \in DOMAIN sessions
    THEN [sessions EXCEPT ![user_id].message_ids = Append(@, message_id)]
    ELSE sessions

\* Mutant of store_message_id_table: the row is written only for a user
\* with a live session.
store_message_id_table_live(history, user_id, message_id) ==
    IF user_id \in DOMAIN active_users
    THEN history \cup {<<user_id, message_id>>}
    ELSE history

store_message_id_table(history, user_id, message_id) ==
    history \cup {<<user_id, message_id>>}

\* Mutant of log_admin_action: the new row is put in front.
log_admin_action_front(logs, admin_id, action, target_user_id) ==
    <<[admin_id |-> admin_id, action |-> action,
       target_user_id |-> target_user_id]>> \o logs

log_admin_action(logs, admin_id, action, target_user_id) ==
    Append(logs, [admin_id |-> admin_id, action |-> action,
                  target_user_id |-> target_user_id])

\* Mutant of set_admin_reply_timeout: an operator who has a timestamp keeps
\* it when claiming again.
set_admin_reply_timeout_stale(timeouts, admin_id, t) ==
    IF admin_id \in DOMAIN timeouts THEN timeouts
    ELSE [k \in DOMAIN timeouts \cup {admin_id} |->
            IF k = admin_id THEN t ELSE timeouts[k]]

\* Mutant of set_admin_reply_timeout: the claim records no timestamp.
set_admin_reply_timeout_skipped(timeouts, admin_id, t) == timeouts

\* self.admin_reply_timeouts[admin_id] = time.time()
set_admin_reply_timeout(timeouts, admin_id, t) == MapSet(timeouts, admin_id, t)

\* check_reply_timeouts: the admins whose recorded start is older than the
\* timeout lose their timeout entry and, when they have one, their route.
ExpiredAdmins(timeouts, t) ==
    {a \in DOMAIN timeouts : t - timeouts[a] > ReplyTimeout}

\* Mutant of check_reply_timeouts_targets: the sweep leaves the routes.
check_reply_timeouts_targets_kept(targets, timeouts, t) == targets

check_reply_timeouts_targets(targets, timeouts, t) ==
    SelectSeq(targets, LAMBDA p : p[1] \notin ExpiredAdmins(timeouts, t))

\* Mutant of check_reply_timeouts_timeouts: the timestamps of the expired
\* admins are kept.
check_reply_timeouts_timeouts_kept(timeouts, t) == timeouts

check_reply_timeouts_timeouts(timeouts, t) ==
    [a \in DOMAIN timeouts \ ExpiredAdmins(timeouts, t) |-> timeouts[a]]

\* cleanup_inactive_users: sessions idle for longer than the threshold.
\* Mutant of InactiveUsers: a session idle for exactly the threshold goes too.
InactiveUsersInclusive(sessions, t) ==
    {u \in DOMAIN sessions :
        t - strptime(sessions[u].last_activity) >= InactiveThreshold}

InactiveUsers(sessions, t) ==
    {u \in DOMAIN sessions :
        t - strptime(sessions[u].last_activity) > InactiveThreshold}

cleanup_inactive_users(sessions, t) ==
    [u \in DOMAIN sessions \ InactiveUsers(sessions, t) |-> sessions[u]]

\* ------------------------------------------------------------------ tasks
\* A task: the await it is suspended at (pc), the identity whose update it
\* handles (who), the user id it carries (arg: callback data, or the route
\* target read at the start of a reply), and the locals that live across
\* awaits.
Idle == [pc |-> "idle", who |-> NoId, arg |-> NoId, data |-> "",
         sent |-> FALSE, log |-> "", rows |-> <<>>, tried |-> {},
         ok |-> 0, bad |-> 0]
Task(pc, who, arg) == [Idle EXCEPT !.pc = pc, !.who = who, !.arg = arg]

\* The observation of a step: what it did, for whom (who), about which user
\* (arg), a number where the step produces one (n), and what became of the
\* send where the step ends a reply (out).
NoEv == [name |-> "none", who |-> NoId, arg |-> NoId, n |-> 0, out |-> ""]
EvN(name, who, arg, n) == [NoEv EXCEPT !.name = name, !.who = who,
                                       !.arg = arg, !.n = n]
Ev(name, who, arg) == EvN(name, who, arg, 0)

InFlight == {s \in Slots : tasks[s].pc # "idle"}

\* A new update is taken in only while the message ids and log rows that
\* the handlers in flight and the new one may still need are available.
IdRoom == next_message_id + Cardinality(InFlight) <= MaxMsgId
LogRoom == Len(admin_logs) + Cardinality(InFlight) < MaxLog

Init ==
    /\ now = 0
    /\ user_messages = [u \in Ids |-> <<>>]
    /\ active_users = <<>>
    /\ admin_reply_targets = <<>>
    /\ admin_reply_timeouts = <<>>
    /\ message_history = {}
    /\ user_sessions = {}
    /\ admin_logs = <<>>
    /\ next_message_id = 1
    /\ tasks = [s \in Slots |-> Idle]
    /\ ev = NoEv
    /\ recent_admits = [u \in Ids |-> <<>>]
    /\ last_reply_at = [a \in ADMIN_IDS |-> [at |-> NoTime, to |-> NoId]]


\* ------------------------------------------------------------ environment
\* Time passes; the observation of recent admissions forgets those that
\* have become TimeWindow old.
Tick ==
    /\ now < MaxTime
    /\ now' = now + 1
    /\ recent_admits' =
         [u \in Ids |->
            SelectSeq(recent_admits[u], LAMBDA x : now + 1 - x < TimeWindow)]
    /\ ev' = NoEv
    /\ UNCHANGED <<stores, next_message_id, tasks, last_reply_at>>

\* --------------------------------------------------- handle_user_message
\* From the entry to the first await: the rate check, the session, and the
\* dispatch on chat and sender.
HandleUserMessage(s, u, group, kind) ==
    LET admitted == Admits(user_messages[u], now)
        replying == is_admin(u) /\ DictHas(admin_reply_targets, u)
        session == get_user_session(active_users, u, now)
        snapshot == {[key |-> "last_message",
                      type |-> IF kind = "text" THEN "text" ELSE "media",
                      timestamp |-> strftime(now)]}
    IN
    /\ tasks[s].pc = "idle"
    /\ IdRoom
    /\ (admitted /\ group /\ replying) => LogRoom
    /\ user_messages' = [user_messages EXCEPT ![u] = is_allowed_times(@, now)]
    /\ recent_admits' =
         IF admitted THEN [recent_admits EXCEPT ![u] = Append(@, now)]
         ELSE recent_admits
    /\ IF ~admitted
       THEN /\ tasks' = [tasks EXCEPT ![s] = Task("um_throttle", u, NoId)]
            /\ ev' = Ev("throttled", u, NoId)
            /\ active_users' = throttled_return(active_users, u, now)
            /\ UNCHANGED user_sessions
       ELSE /\ user_sessions' =
                 IF u \in DOMAIN active_users THEN user_sessions
                 ELSE user_sessions \cup {u}
            /\ IF group
               THEN /\ active_users' = session
                    /\ IF replying
                       THEN \* handle_admin_reply, up to its first await
                            LET target == DictGet(admin_reply_targets, u) IN
                            /\ tasks' = [tasks EXCEPT ![s] =
                                 [Task(IF Relayable(kind) THEN "ar_send"
                                       ELSE "ar_confirm", u, target)
                                    EXCEPT !.data = kind]]
                            /\ ev' = Ev("reply_started", u, target)
                       ELSE /\ tasks' = tasks
                            /\ ev' = Ev("group_message_dropped", u, NoId)
               ELSE IF replying
                    THEN /\ active_users' = session
                         /\ tasks' = [tasks EXCEPT ![s] =
                                        Task("um_private", u, NoId)]
                         /\ ev' = Ev("private_reply_refused", u, NoId)
                    ELSE /\ active_users' =
                              [session EXCEPT ![u].conversation_data = snapshot]
                         /\ tasks' = [tasks EXCEPT ![s] =
                                        Task("um_notify", u, NoId)]
                         /\ ev' = Ev("relay_started", u, NoId)
    /\ UNCHANGED <<now, admin_reply_targets, admin_reply_timeouts,
                   message_history, admin_logs, next_message_id,
                   last_reply_at>>

\* Mutant of UmNotified: a failed notification is not caught, and the
\* handler goes to its error notice.
UmNotifiedRaising(s, ok) ==
    /\ tasks[s].pc = "um_notify"
    /\ tasks' = [tasks EXCEPT ![s].pc = IF ok THEN "um_ack" ELSE "um_error",
                              ![s].sent = ok]
    /\ ev' = Ev(IF ok THEN "notified" ELSE "notify_failed", tasks[s].who, NoId)
    /\ UNCHANGED <<now, stores, next_message_id, recent_admits, last_reply_at>>

\* The notification to the group was sent or failed (the failure is
\* logged); the confirmation to the user is sent next in both cases.
UmNotified(s, ok) ==
    /\ tasks[s].pc = "um_notify"
    /\ tasks' = [tasks EXCEPT ![s].pc = "um_ack", ![s].sent = ok]
    /\ ev' = Ev(IF ok THEN "notified" ELSE "notify_failed", tasks[s].who, NoId)
    /\ UNCHANGED <<now, stores, next_message_id, recent_admits, last_reply_at>>

\* message.reply_text returned (throttling notice, refusal of a private
\* reply, or confirmation): its message id is stored; when it raised, the
\* handler's except clause sends an error notice.
UmReplied(s, ok) ==
    LET u == tasks[s].who IN
    /\ tasks[s].pc \in {"um_throttle", "um_private", "um_ack"}
    /\ IF ok
       THEN /\ active_users' =
                 store_message_id_session(active_users, u, next_message_id)
            /\ message_history' =
                 store_message_id_table(message_history, u, next_message_id)
            /\ next_message_id' = next_message_id + 1
            /\ tasks' = [tasks EXCEPT ![s] = Idle]
            /\ ev' = [Ev(CASE tasks[s].pc = "um_throttle" -> "throttle_notice"
                           [] tasks[s].pc = "um_private" -> "private_notice"
                           [] OTHER -> "acknowledged", u, NoId)
                        EXCEPT !.out = IF tasks[s].pc # "um_ack" THEN ""
                                       ELSE IF tasks[s].sent THEN "notified"
                                       ELSE "not_notified"]
       ELSE /\ tasks' = [tasks EXCEPT ![s] = Task("um_error", u, NoId)]
            /\ ev' = Ev("reply_text_failed", u, NoId)
            /\ UNCHANGED <<active_users, message_history, next_message_id>>
    /\ UNCHANGED <<now, user_messages, admin_reply_targets,
                   admin_reply_timeouts, user_sessions, admin_logs,
                   recent_admits, last_reply_at>>

\* The error notice of the except clause returned; its own failure is
\* swallowed.
UmErrorNoticed(s) ==
    /\ tasks[s].pc = "um_error"
    /\ tasks' = [tasks EXCEPT ![s] = Idle]
    /\ ev' = NoEv
    /\ UNCHANGED <<now, stores, next_message_id, recent_admits, last_reply_at>>

\* ---------------------------------------------------- handle_admin_reply
\* What became of the send to the target, for the observation: it failed,
\* it was delivered, or the content was of a kind no branch sends.
ReplyOutcome(t) ==
    IF t.sent THEN "delivered"
    ELSE IF Relayable(t.data) THEN "send_failed" ELSE "nothing_sent"

\* The send to the target returned.
ArSent(s, ok) ==
    /\ tasks[s].pc = "ar_send"
    /\ tasks' = [tasks EXCEPT ![s].pc = IF ok THEN "ar_confirm" ELSE "ar_fail",
                              ![s].sent = ok]
    /\ ev' = Ev(IF ok THEN "reply_delivered" ELSE "reply_failed",
                tasks[s].who, tasks[s].arg)
    /\ last_reply_at' =
         IF ok THEN [last_reply_at EXCEPT ![tasks[s].who] =
                       [at |-> now, to |-> tasks[s].arg]]
         ELSE last_reply_at
    /\ UNCHANGED <<now, stores, next_message_id, recent_admits>>

\* The confirmation to the admin returned: the action is logged, or the
\* TelegramError of the confirmation lands in the same except clause as a
\* failed send.
ArConfirmed(s, ok) ==
    /\ tasks[s].pc = "ar_confirm"
    /\ IF ok
       THEN /\ admin_logs' = log_admin_action(admin_logs, tasks[s].who,
                                              "replied_to_user", tasks[s].arg)
            /\ tasks' = [tasks EXCEPT ![s] = Idle]
            /\ ev' = [Ev("reply_confirmed", tasks[s].who, tasks[s].arg)
                        EXCEPT !.out = ReplyOutcome(tasks[s])]
       ELSE /\ tasks' = [tasks EXCEPT ![s].pc = "ar_fail"]
            /\ ev' = Ev("confirm_failed", tasks[s].who, tasks[s].arg)
            /\ UNCHANGED admin_logs
    /\ UNCHANGED <<now, user_messages, active_users, admin_reply_targets,
                   admin_reply_timeouts, message_history, user_sessions,
                   next_message_id, recent_admits, last_reply_at>>

\* Mutant of clear_reply_target: the target survives the failure.
clear_reply_target_missing(targets, admin_id) == targets

\* if admin.id in admin_reply_targets: del admin_reply_targets[admin.id]
clear_reply_target(targets, admin_id) == DictDel(targets, admin_id)

\* The "Failed to send reply" notice returned; the reply target is cleared
\* by the except clause, or by the outer one when the notice raised too.
ArFailed(s) ==
    /\ tasks[s].pc = "ar_fail"
    /\ admin_reply_targets' =
         clear_reply_target(admin_reply_targets, tasks[s].who)
    /\ tasks' = [tasks EXCEPT ![s] = Idle]
    /\ ev' = [Ev("reply_aborted", tasks[s].who, tasks[s].arg)
                EXCEPT !.out = ReplyOutcome(tasks[s])]
    /\ UNCHANGED <<now, user_messages, active_users, admin_reply_timeouts,
                   message_history, user_sessions, admin_logs,
                   next_message_id, recent_admits, last_reply_at>>

\* The confirmation to the admin was sent, and log_admin_action raised (the
\* database is unavailable).  The error is no TelegramError: it passes the
\* inner except clause and lands in the outer one, which logs it and clears
\* the reply target.
ArLogFailed(s) ==
    /\ tasks[s].pc = "ar_confirm"
    /\ admin_reply_targets' =
         clear_reply_target(admin_reply_targets, tasks[s].who)
    /\ tasks' = [tasks EXCEPT ![s] = Idle]
    /\ ev' = [Ev("reply_log_failed", tasks[s].who, tasks[s].arg)
                EXCEPT !.out = ReplyOutcome(tasks[s])]
    /\ UNCHANGED <<now, user_messages, active_users, admin_reply_timeouts,
                   message_history, user_sessions, admin_logs,
                   next_message_id, recent_admits, last_reply_at>>

\* An admitted first message of user u whose INSERT into user_sessions
\* raised (the database is unavailable): the session is in memory already,
\* the row is not written, and the handler's except clause sends its error
\* notice; the rest of the handler does not run.
UmPersistFailed(s, u) ==
    /\ tasks[s].pc = "idle"
    /\ IdRoom
    /\ Admits(user_messages[u], now)
    /\ u \notin DOMAIN active_users
    /\ user_messages' = [user_messages EXCEPT ![u] = is_allowed_times(@, now)]
    /\ recent_admits' = [recent_admits EXCEPT ![u] = Append(@, now)]
    /\ active_users' = get_user_session(active_users, u, now)
    /\ tasks' = [tasks EXCEPT ![s] = Task("um_error", u, NoId)]
    /\ ev' = Ev("persist_failed", u, NoId)
    /\ UNCHANGED <<now, admin_reply_targets, admin_reply_timeouts,
                   message_history, user_sessions, admin_logs,
                   next_message_id, last_reply_at>>

\* -------------------------------------------------------- handle_callback
CallbackData == {"reply", "continue", "end_reply", "delete",
                 "confirm_delete", "cancel_delete", "info", "block"}

\* From the entry to the first await: the authorization check, then
\* query.answer with or without the rejection text.
HandleCallback(s, a, data, u) ==
    /\ tasks[s].pc = "idle"
    /\ LogRoom
    /\ tasks' = [tasks EXCEPT ![s] =
         [Task(IF is_admin(a) THEN "cb_answer" ELSE "cb_reject", a, u)
            EXCEPT !.data = data]]
    /\ ev' = Ev(IF is_admin(a) THEN "callback" ELSE "callback_rejected", a, u)
    /\ UNCHANGED <<now, stores, next_message_id, recent_admits, last_reply_at>>

\* The rejection was answered; nothing follows it (when the answer raised,
\* the except clause answers once more, which changes nothing either).
CbRejected(s) ==
    /\ tasks[s].pc = "cb_reject"
    /\ tasks' = [tasks EXCEPT ![s] = Idle]
    /\ ev' = Ev("rejection_answered", tasks[s].who, tasks[s].arg)
    /\ UNCHANGED <<now, stores, next_message_id, recent_admits, last_reply_at>>

\* SELECT message_id ... WHERE user_id = ? ORDER BY timestamp DESC: ids
\* grow with time, so the rows come with the highest id first.
RECURSIVE Descending(_)
Descending(S) ==
    IF S = {} THEN <<>>
    ELSE LET m == CHOOSE x \in S : \A y \in S : y <= x
         IN <<m>> \o Descending(S \ {m})

SelectMessages(history, user_id) ==
    Descending({r[2] : r \in {h \in history : h[1] = user_id}})

\* for admin_id, target_id in admin_reply_targets.items():
\*     if target_id == user_id: admin_to_clear = admin_id; break
AdminToClear(targets, user_id) ==
    IF \E i \in 1..Len(targets) : targets[i][2] = user_id
    THEN LET i == CHOOSE j \in 1..Len(targets) :
                    /\ targets[j][2] = user_id
                    /\ \A k \in 1..(j - 1) : targets[k][2] # user_id
         IN targets[i][1]
    ELSE NoId

\* delete_user_chat after its deletion loop, up to the next await: the
\* history rows, the session and the reply target found for the user go.
PurgeUser(s, user_id) ==
    LET admin_to_clear == AdminToClear(admin_reply_targets, user_id) IN
    /\ message_history' = {h \in message_history : h[1] # user_id}
    /\ active_users' = MapDel(active_users, user_id)
    /\ IF admin_to_clear # NoId
       THEN /\ admin_reply_targets' =
                 DictDel(admin_reply_targets, admin_to_clear)
            /\ admin_reply_timeouts' =
                 MapDel(admin_reply_timeouts, admin_to_clear)
       ELSE UNCHANGED <<admin_reply_targets, admin_reply_timeouts>>
    /\ ev' = EvN("purged", tasks[s].who, user_id,
                 Cardinality({h \in message_history : h[1] = user_id}))

\* query.answer() returned: the branch for the callback data runs up to
\* its next await.
CbAnswered(s, ok) ==
    LET a == tasks[s].who
        u == tasks[s].arg
        data == tasks[s].data
    IN
    /\ tasks[s].pc = "cb_answer"
    /\ IF ~ok
       THEN /\ tasks' = [tasks EXCEPT ![s] = Idle]
            /\ ev' = Ev("callback_failed", a, u)
            /\ UNCHANGED stores
       ELSE CASE data = "reply" ->
                 /\ admin_reply_targets' = DictSet(admin_reply_targets, a, u)
                 /\ admin_reply_timeouts' =
                      set_admin_reply_timeout(admin_reply_timeouts, a, now)
                 /\ tasks' = [tasks EXCEPT ![s].pc = "cb_edit"]
                 /\ ev' = EvN("bound", a, u, DictGet(admin_reply_targets, a))
                 /\ UNCHANGED <<user_messages, active_users, message_history,
                                user_sessions, admin_logs>>
              [] data = "end_reply" ->
                 /\ admin_reply_targets' = DictDel(admin_reply_targets, a)
                 /\ admin_reply_timeouts' = MapDel(admin_reply_timeouts, a)
                 /\ tasks' = [tasks EXCEPT ![s].pc = "cb_edit"]
                 /\ ev' = Ev("ended", a, u)
                 /\ UNCHANGED <<user_messages, active_users, message_history,
                                user_sessions, admin_logs>>
              [] data = "confirm_delete" ->
                 LET rows == SelectMessages(message_history, u) IN
                 IF rows = <<>>
                 THEN /\ PurgeUser(s, u)
                      /\ tasks' = [tasks EXCEPT ![s].pc = "del_edit"]
                      /\ UNCHANGED <<user_messages, user_sessions, admin_logs>>
                 ELSE /\ tasks' = [tasks EXCEPT ![s].pc = "del_loop",
                                                ![s].rows = rows]
                      /\ ev' = Ev("delete_started", a, u)
                      /\ UNCHANGED stores
              [] OTHER ->
                 /\ tasks' = [tasks EXCEPT ![s].pc = "cb_edit"]
                 /\ ev' = Ev("viewed", a, u)
                 /\ UNCHANGED stores
    /\ UNCHANGED <<now, next_message_id, recent_admits, last_reply_at>>

\* query.edit_message_text returned; ending reply mode is logged after a
\* successful edit (a failed edit raises past the log call).
CbEdited(s, ok) ==
    /\ tasks[s].pc = "cb_edit"
    /\ IF ok /\ tasks[s].data = "end_reply"
       THEN admin_logs' = log_admin_action(admin_logs, tasks[s].who,
                                           "ended_reply_mode", tasks[s].arg)
       ELSE UNCHANGED admin_logs
    /\ tasks' = [tasks EXCEPT ![s] = Idle]
    /\ ev' = Ev(IF ok THEN "edited" ELSE "edit_failed",
                tasks[s].who, tasks[s].arg)
    /\ UNCHANGED <<now, user_messages, active_users, admin_reply_targets,
                   admin_reply_timeouts, message_history, user_sessions,
                   next_message_id, recent_admits, last_reply_at>>

\* ------------------------------------------------------- delete_user_chat
\* One delete_message of the loop returned; after the last row the purge
\* runs in the same step.
DelDeleted(s, ok) ==
    LET t == tasks[s]
        t1 == [t EXCEPT !.rows = Tail(t.rows),
                        !.tried = t.tried \cup {Head(t.rows)},
                        !.ok = IF ok THEN t.ok + 1 ELSE t.ok,
                        !.bad = IF ok THEN t.bad ELSE t.bad + 1]
    IN
    /\ t.pc = "del_loop"
    /\ IF t1.rows = <<>>
       THEN /\ PurgeUser(s, t.arg)
            /\ tasks' = [tasks EXCEPT ![s] = [t1 EXCEPT !.pc = "del_edit"]]
       ELSE /\ tasks' = [tasks EXCEPT ![s] = t1]
            /\ ev' = Ev(IF ok THEN "deleted" ELSE "delete_failed",
                        t.who, t.arg)
            /\ UNCHANGED <<active_users, admin_reply_targets,
                           admin_reply_timeouts, message_history>>
    /\ UNCHANGED <<now, user_messages, user_sessions, admin_logs,
                   next_message_id, recent_admits, last_reply_at>>

\* The report to the admin was edited in; when the edit raised, the except
\* clause answers "Error deleting chat" and nothing is logged.
DelEdited(s, ok) ==
    /\ tasks[s].pc = "del_edit"
    /\ tasks' = [tasks EXCEPT ![s] =
                   IF ok THEN [tasks[s] EXCEPT !.pc = "del_notify"] ELSE Idle]
    /\ ev' = Ev(IF ok THEN "delete_reported" ELSE "delete_report_failed",
                tasks[s].who, tasks[s].arg)
    /\ UNCHANGED <<now, stores, next_message_id, recent_admits, last_reply_at>>

\* The "Conversation Ended" notice to the user returned (its failure is
\* swallowed); the deletion is logged.
DelNotified(s) ==
    /\ tasks[s].pc = "del_notify"
    /\ admin_logs' = log_admin_action(admin_logs, tasks[s].who,
                                      "deleted_user_chat", tasks[s].arg)
    /\ tasks' = [tasks EXCEPT ![s] = Idle]
    /\ ev' = Ev("delete_logged", tasks[s].who, tasks[s].arg)
    /\ UNCHANGED <<now, user_messages, active_users, admin_reply_targets,
                   admin_reply_timeouts, message_history, user_sessions,
                   next_message_id, recent_admits, last_reply_at>>


\* --------------------------------------------------------------- commands
\* The admin-only commands.  Each checks is_admin first; all but /cancel
\* answer a stranger with a rejection text.
AdminCommands == {"admin", "users", "active_replies", "cleanup", "stats",
                  "broadcast", "cancel"}

\* for user_id in user_manager.active_users: the ids to visit.
RECURSIVE Ascending(_)
Ascending(S) ==
    IF S = {} THEN <<>>
    ELSE LET m == CHOOSE x \in S : \A y \in S : x <= y
         IN <<m>> \o Ascending(S \ {m})

\* From the entry of an admin command to its first await.  has_args is
\* context.args of /broadcast.
HandleCommand(s, a, cmd, has_args) ==
    /\ tasks[s].pc = "idle"
    /\ LogRoom
    /\ IF ~is_admin(a)
       THEN /\ tasks' = [tasks EXCEPT ![s] =
                 IF cmd = "cancel" THEN Idle
                 ELSE [Task("cmd_reject", a, NoId) EXCEPT !.data = cmd]]
            /\ ev' = Ev(IF cmd = "cancel" THEN "command_returned"
                        ELSE "command_rejected", a, NoId)
            /\ UNCHANGED stores
       ELSE CASE cmd = "cleanup" ->
                 \* cleanup_inactive_users(), then check_reply_timeouts(30)
                 /\ active_users' = cleanup_inactive_users(active_users, now)
                 /\ admin_reply_targets' =
                      check_reply_timeouts_targets(admin_reply_targets,
                                                   admin_reply_timeouts, now)
                 /\ admin_reply_timeouts' =
                      check_reply_timeouts_timeouts(admin_reply_timeouts, now)
                 /\ tasks' = [tasks EXCEPT ![s] =
                      [Task("cmd_reply", a, NoId)
                         EXCEPT !.data = cmd, !.log = "cleanup_users"]]
                 /\ ev' = EvN("cleanup_command", a, NoId,
                              Cardinality(InactiveUsers(active_users, now)))
                 /\ UNCHANGED <<user_messages, message_history,
                                user_sessions, admin_logs>>
              [] cmd = "cancel" ->
                 LET target_user_id == DictGet(admin_reply_targets, a) IN
                 /\ admin_reply_targets' = DictDel(admin_reply_targets, a)
                 /\ admin_reply_timeouts' =
                      IF DictHas(admin_reply_targets, a)
                      THEN MapDel(admin_reply_timeouts, a)
                      ELSE admin_reply_timeouts
                 /\ tasks' = [tasks EXCEPT ![s] =
                      [Task("cmd_reply", a, target_user_id)
                         EXCEPT !.data = cmd,
                                !.log = IF DictHas(admin_reply_targets, a)
                                        THEN "cancelled_reply_mode" ELSE ""]]
                 /\ ev' = Ev(IF DictHas(admin_reply_targets, a)
                             THEN "cancelled" ELSE "nothing_to_cancel",
                             a, target_user_id)
                 /\ UNCHANGED <<user_messages, active_users, message_history,
                                user_sessions, admin_logs>>
              [] cmd = "broadcast" /\ has_args
                               /\ DOMAIN active_users # {} ->
                 /\ tasks' = [tasks EXCEPT ![s] =
                      [Task("bc_loop", a, NoId)
                         EXCEPT !.data = cmd, !.log = "broadcast_message",
                                !.rows = Ascending(DOMAIN active_users)]]
                 /\ ev' = Ev("broadcast_started", a, NoId)
                 /\ UNCHANGED stores
              [] OTHER ->
                 /\ tasks' = [tasks EXCEPT ![s] =
                      [Task("cmd_reply", a, NoId)
                         EXCEPT !.data = cmd,
                                !.log =
                                  CASE cmd = "admin" -> "accessed_admin_panel"
                                    [] cmd = "users" /\ DOMAIN active_users # {}
                                         -> "listed_users"
                                    [] cmd = "broadcast" /\ has_args
                                         -> "broadcast_message"
                                    [] OTHER -> ""]]
                 /\ ev' = Ev("command", a, NoId)
                 /\ UNCHANGED stores
    /\ UNCHANGED <<now, next_message_id, recent_admits, last_reply_at>>

\* One send_message of the broadcast loop returned.  The loop iterates the
\* live dict: when its size changed meanwhile the next step of the
\* iteration raises RuntimeError, which ends the handler.
BcSent(s, ok) ==
    LET t == tasks[s]
        t1 == [t EXCEPT !.rows = Tail(t.rows),
                        !.ok = IF ok THEN t.ok + 1 ELSE t.ok,
                        !.bad = IF ok THEN t.bad ELSE t.bad + 1]
        size0 == t.ok + t.bad + Len(t.rows)
    IN
    /\ t.pc = "bc_loop"
    /\ tasks' = [tasks EXCEPT ![s] =
         IF Cardinality(DOMAIN active_users) # size0 THEN Idle
         ELSE IF t1.rows = <<>> THEN [t1 EXCEPT !.pc = "cmd_reply"]
         ELSE t1]
    /\ ev' = Ev(IF Cardinality(DOMAIN active_users) # size0
                THEN "broadcast_aborted"
                ELSE IF ok THEN "broadcast_sent" ELSE "broadcast_send_failed",
                t.who, Head(t.rows))
    /\ UNCHANGED <<now, stores, next_message_id, recent_admits, last_reply_at>>

\* update.message.reply_text of a command returned: the rejection, or the
\* command's answer, after which the command logs its action.  The
\* commands have no except clause: when the reply raises the log call is
\* not reached.
CmdReplied(s, ok) ==
    LET t == tasks[s] IN
    /\ t.pc \in {"cmd_reply", "cmd_reject"}
    /\ IF ok /\ t.pc = "cmd_reply" /\ t.log # ""
       THEN admin_logs' = log_admin_action(admin_logs, t.who, t.log, t.arg)
       ELSE UNCHANGED admin_logs
    /\ tasks' = [tasks EXCEPT ![s] = Idle]
    /\ ev' = EvN(IF t.pc = "cmd_reject" THEN "rejection_sent"
                 ELSE IF ok THEN "command_answered" ELSE "command_reply_failed",
                 t.who, t.arg, t.ok + t.bad)
    /\ UNCHANGED <<now, user_messages, active_users, admin_reply_targets,
                   admin_reply_timeouts, message_history, user_sessions,
                   next_message_id, recent_admits, last_reply_at>>

\* start_command: in the group an admin gets a status line and anyone else
\* nothing; in private the welcome is sent and its message id stored.
HandleStart(s, u, group) ==
    /\ tasks[s].pc = "idle"
    /\ IdRoom
    /\ tasks' = [tasks EXCEPT ![s] =
         IF group
         THEN IF is_admin(u) THEN [Task("cmd_reply", u, NoId)
                                     EXCEPT !.data = "start"]
              ELSE Idle
         ELSE Task("start_reply", u, NoId)]
    /\ ev' = Ev("start", u, NoId)
    /\ UNCHANGED <<now, stores, next_message_id, recent_admits, last_reply_at>>

StartReplied(s, ok) ==
    LET u == tasks[s].who IN
    /\ tasks[s].pc = "start_reply"
    /\ IF ok
       THEN /\ active_users' =
                 store_message_id_session(active_users, u, next_message_id)
            /\ message_history' =
                 store_message_id_table(message_history, u, next_message_id)
            /\ next_message_id' = next_message_id + 1
       ELSE UNCHANGED <<active_users, message_history, next_message_id>>
    /\ tasks' = [tasks EXCEPT ![s] = Idle]
    /\ ev' = Ev(IF ok THEN "welcomed" ELSE "welcome_failed", u, NoId)
    /\ UNCHANGED <<now, user_messages, admin_reply_targets,
                   admin_reply_timeouts, user_sessions, admin_logs,
                   recent_admits, last_reply_at>>

\* ------------------------------------------------------------------- jobs
\* periodic_cleanup, every hour.
PeriodicCleanup ==
    /\ active_users' = cleanup_inactive_users(active_users, now)
    /\ admin_reply_targets' =
         check_reply_timeouts_targets(admin_reply_targets,
                                      admin_reply_timeouts, now)
    /\ admin_reply_timeouts' =
         check_reply_timeouts_timeouts(admin_reply_timeouts, now)
    /\ ev' = EvN("periodic_cleanup", NoId, NoId,
                 Cardinality(InactiveUsers(active_users, now)))
    /\ UNCHANGED <<now, user_messages, message_history, user_sessions,
                   admin_logs, next_message_id, tasks, recent_admits,
                   last_reply_at>>

\* lambda context: user_manager.check_reply_timeouts(30), every 30 minutes.
ReplyTimeoutJob ==
    /\ admin_reply_targets' =
         check_reply_timeouts_targets(admin_reply_targets,
                                      admin_reply_timeouts, now)
    /\ admin_reply_timeouts' =
         check_reply_timeouts_timeouts(admin_reply_timeouts, now)
    /\ ev' = EvN("timeout_sweep", NoId, NoId,
                 Cardinality(ExpiredAdmins(admin_reply_timeouts, now)))
    /\ UNCHANGED <<now, user_messages, active_users, message_history,
                   user_sessions, admin_logs, next_message_id, tasks,
                   recent_admits, last_reply_at>>

\* --------------------------------------------------------- specifications
\* One more await of the task in slot s returns.
Resume(s) ==
    \/ \E ok \in BOOLEAN : UmNotified(s, ok)
    \/ \E ok \in BOOLEAN : UmReplied(s, ok)
    \/ UmErrorNoticed(s)
    \/ \E ok \in BOOLEAN : ArSent(s, ok)
    \/ \E ok \in BOOLEAN : ArConfirmed(s, ok)
    \/ ArFailed(s)
    \/ CbRejected(s)
    \/ \E ok \in BOOLEAN : CbAnswered(s, ok)
    \/ \E ok \in BOOLEAN : CbEdited(s, ok)
    \/ \E ok \in BOOLEAN : DelDeleted(s, ok)
    \/ \E ok \in BOOLEAN : DelEdited(s, ok)
    \/ DelNotified(s)
    \/ \E ok \in BOOLEAN : BcSent(s, ok)
    \/ \E ok \in BOOLEAN : CmdReplied(s, ok)
    \/ \E ok \in BOOLEAN : StartReplied(s, ok)

\* A new update starts a handler in slot s.
Arrive(s) ==
    \/ \E u \in Ids, group \in BOOLEAN, kind \in ContentKinds :
         HandleUserMessage(s, u, group, kind)
    \/ \E a \in Ids, data \in CallbackData, u \in Users :
         HandleCallback(s, a, data, u)
    \/ \E a \in Ids, cmd \in AdminCommands, has_args \in BOOLEAN :
         HandleCommand(s, a, cmd, has_args)
    \/ \E u \in Ids, group \in BOOLEAN : HandleStart(s, u, group)

\* The whole system: any update from anyone at any time, two handlers in
\* flight.
Next ==
    \/ Tick
    \/ PeriodicCleanup
    \/ ReplyTimeoutJob
    \/ \E s \in Slots : Arrive(s) \/ Resume(s)

Spec == Init /\ [][Next]_vars

\* The specifications below run the same handlers under a narrower
\* environment (who sends which updates), one handler at a time.

\* Users write to the bot in private while time passes.
NextRate ==
    \/ Tick
    \/ \E u \in Users : HandleUserMessage(1, u, FALSE, "text")
    \/ \E ok \in BOOLEAN : UmNotified(1, ok)
    \/ \E ok \in BOOLEAN : UmReplied(1, ok)
    \/ UmErrorNoticed(1)

SpecRate == Init /\ [][NextRate]_vars

\* An operator claims users from the notifications, writes in the group and
\* ends reply mode, while time passes and the timeout job runs.
NextReply ==
    \/ Tick
    \/ ReplyTimeoutJob
    \/ \E kind \in {"text", "sticker"} : HandleUserMessage(1, 1, TRUE, kind)
    \/ \E data \in {"reply", "end_reply"} : HandleCallback(1, 1, data, 3)
    \/ \E ok \in BOOLEAN : UmReplied(1, ok)
    \/ UmErrorNoticed(1)
    \/ \E ok \in BOOLEAN : ArSent(1, ok)
    \/ \E ok \in BOOLEAN : ArConfirmed(1, ok)
    \/ ArFailed(1)
    \/ \E ok \in BOOLEAN : CbAnswered(1, ok)
    \/ \E ok \in BOOLEAN : CbEdited(1, ok)

SpecReply == Init /\ [][NextReply]_vars

\* Two operators claim users and delete chats; a user writes in private,
\* which leaves stored message references to delete.
NextClaim ==
    \/ \E a \in ADMIN_IDS, data \in {"reply", "confirm_delete"}, u \in Users :
         HandleCallback(1, a, data, u)
    \/ HandleUserMessage(1, 3, FALSE, "text")
    \/ \E ok \in BOOLEAN : UmNotified(1, ok)
    \/ \E ok \in BOOLEAN : UmReplied(1, ok)
    \/ UmErrorNoticed(1)
    \/ \E ok \in BOOLEAN : CbAnswered(1, ok)
    \/ \E ok \in BOOLEAN : CbEdited(1, ok)
    \/ \E ok \in BOOLEAN : DelDeleted(1, ok)
    \/ \E ok \in BOOLEAN : DelEdited(1, ok)
    \/ DelNotified(1)

SpecClaim == Init /\ [][NextClaim]_vars

\* An operator and a stranger both press every button and send every admin
\* command, while a user writes in private.
NextAuth ==
    \/ \E a \in {1, 3}, data \in CallbackData : HandleCallback(1, a, data, 3)
    \/ \E a \in {1, 3}, cmd \in AdminCommands, has_args \in BOOLEAN :
         HandleCommand(1, a, cmd, has_args)
    \/ HandleUserMessage(1, 3, FALSE, "text")
    \/ \E ok \in BOOLEAN : UmNotified(1, ok)
    \/ \E ok \in BOOLEAN : UmReplied(1, ok)
    \/ UmErrorNoticed(1)
    \/ CbRejected(1)
    \/ \E ok \in BOOLEAN : CbAnswered(1, ok)
    \/ \E ok \in BOOLEAN : CbEdited(1, ok)
    \/ \E ok \in BOOLEAN : DelDeleted(1, ok)
    \/ \E ok \in BOOLEAN : DelEdited(1, ok)
    \/ DelNotified(1)
    \/ \E ok \in BOOLEAN : BcSent(1, ok)
    \/ \E ok \in BOOLEAN : CmdReplied(1, ok)

SpecAuth == Init /\ [][NextAuth]_vars

\* A user writes in private, an operator claims the user, time passes, and
\* the two scheduled jobs and the cleanup command run.
NextSweep ==
    \/ Tick
    \/ PeriodicCleanup
    \/ ReplyTimeoutJob
    \/ HandleUserMessage(1, 3, FALSE, "text")
    \/ HandleCallback(1, 1, "reply", 3)
    \/ HandleCommand(1, 1, "cleanup", FALSE)
    \/ \E ok \in BOOLEAN : UmNotified(1, ok)
    \/ \E ok \in BOOLEAN : UmReplied(1, ok)
    \/ UmErrorNoticed(1)
    \/ \E ok \in BOOLEAN : CbAnswered(1, ok)
    \/ \E ok \in BOOLEAN : CbEdited(1, ok)
    \/ \E ok \in BOOLEAN : CmdReplied(1, ok)

SpecSweep == Init /\ [][NextSweep]_vars

\* The database may be unavailable: an operator claims a user and replies
\* in the group, a user writes in private, and the statements that write
\* the audit log and the session row may raise.
NextSink ==
    \/ HandleCallback(1, 1, "reply", 3)
    \/ HandleUserMessage(1, 1, TRUE, "text")
    \/ \E u \in Users : HandleUserMessage(1, u, FALSE, "text")
    \/ \E u \in Users : UmPersistFailed(1, u)
    \/ \E ok \in BOOLEAN : UmNotified(1, ok)
    \/ \E ok \in BOOLEAN : UmReplied(1, ok)
    \/ UmErrorNoticed(1)
    \/ \E ok \in BOOLEAN : ArSent(1, ok)
    \/ \E ok \in BOOLEAN : ArConfirmed(1, ok)
    \/ ArLogFailed(1)
    \/ ArFailed(1)
    \/ \E ok \in BOOLEAN : CbAnswered(1, ok)
    \/ \E ok \in BOOLEAN : CbEdited(1, ok)

SpecSink == Init /\ [][NextSink]_vars

\* Everything that writes the audit log, and everything that deletes: an
\* operator claims, replies, ends, cancels and deletes the history, a user
\* writes, and the periodic cleanup (both sweeps) runs.
NextAudit ==
    \/ PeriodicCleanup
    \/ \E data \in {"reply", "end_reply", "confirm_delete"} :
         HandleCallback(1, 1, data, 3)
    \/ HandleCommand(1, 1, "cancel", FALSE)
    \/ HandleUserMessage(1, 1, TRUE, "text")
    \/ HandleUserMessage(1, 3, FALSE, "text")
    \/ \E ok \in BOOLEAN : UmNotified(1, ok)
    \/ \E ok \in BOOLEAN : UmReplied(1, ok)
    \/ UmErrorNoticed(1)
    \/ \E ok \in BOOLEAN : ArSent(1, ok)
    \/ \E ok \in BOOLEAN : ArConfirmed(1, ok)
    \/ ArFailed(1)
    \/ \E ok \in BOOLEAN : CbAnswered(1, ok)
    \/ \E ok \in BOOLEAN : CbEdited(1, ok)
    \/ \E ok \in BOOLEAN : DelDeleted(1, ok)
    \/ \E ok \in BOOLEAN : DelEdited(1, ok)
    \/ DelNotified(1)
    \/ \E ok \in BOOLEAN : CmdReplied(1, ok)

SpecAudit == Init /\ [][NextAudit]_vars

\* An operator broadcasts while users keep writing: the broadcast runs in
\* one handler and the users' messages in another.
NextCast ==
    \/ HandleCommand(1, 1, "broadcast", TRUE)
    \/ \E ok \in BOOLEAN : BcSent(1, ok)
    \/ \E ok \in BOOLEAN : CmdReplied(1, ok)
    \/ \E u \in Users : HandleUserMessage(2, u, FALSE, "text")
    \/ \E ok \in BOOLEAN : UmNotified(2, ok)
    \/ \E ok \in BOOLEAN : UmReplied(2, ok)
    \/ UmErrorNoticed(2)

SpecCast == Init /\ [][NextCast]_vars

\* Overlapping updates of one user: two handlers in flight take the user's
\* messages while time passes.
NextOverlap ==
    \/ Tick
    \/ \E s \in Slots : HandleUserMessage(s, 3, FALSE, "text")
    \/ \E s \in Slots, ok \in BOOLEAN : UmNotified(s, ok)
    \/ \E s \in Slots, ok \in BOOLEAN : UmReplied(s, ok)
    \/ \E s \in Slots : UmErrorNoticed(s)

SpecOverlap == Init /\ [][NextOverlap]_vars

\* The reply-timeout job against operators' claims: the job runs at any
\* await of a callback handler.
NextRace ==
    \/ Tick
    \/ ReplyTimeoutJob
    \/ \E a \in ADMIN_IDS, u \in Users : HandleCallback(1, a, "reply", u)
    \/ \E ok \in BOOLEAN : CbAnswered(1, ok)
    \/ \E ok \in BOOLEAN : CbEdited(1, ok)

SpecRace == Init /\ [][NextRace]_vars

\* Recording and deleting a user's message references: the user writes,
\* an admin deletes the user's chat, and the user writes again.
NextRecord ==
    \/ Tick
    \/ HandleUserMessage(1, 3, FALSE, "text")
    \/ HandleCallback(1, 1, "confirm_delete", 3)
    \/ \E ok \in BOOLEAN : UmNotified(1, ok)
    \/ \E ok \in BOOLEAN : UmReplied(1, ok)
    \/ UmErrorNoticed(1)
    \/ \E ok \in BOOLEAN : CbAnswered(1, ok)
    \/ \E ok \in BOOLEAN : DelDeleted(1, ok)
    \/ \E ok \in BOOLEAN : DelEdited(1, ok)
    \/ DelNotified(1)

SpecRecord == Init /\ [][NextRecord]_vars

\* The same steps under the scheduling of main: time advances, and the job
\* queue keeps running check_reply_timeouts at its interval.
SpecRaceFair ==
    Init /\ [][NextRace]_vars /\ WF_vars(Tick) /\ WF_vars(ReplyTimeoutJob)

\* Every writer of the timestamp map, and the writers of the route map that
\* go with them: claims, ends, cancels and deletions by both admins, and the
\* timeout job while time passes.
NextKeys ==
    \/ Tick
    \/ ReplyTimeoutJob
    \/ \E a \in ADMIN_IDS, data \in {"reply", "end_reply", "confirm_delete"} :
         HandleCallback(1, a, data, 3)
    \/ \E a \in ADMIN_IDS : HandleCommand(1, a, "cancel", FALSE)
    \/ \E ok \in BOOLEAN : CbAnswered(1, ok)
    \/ \E ok \in BOOLEAN : CbEdited(1, ok)
    \/ \E ok \in BOOLEAN : DelEdited(1, ok)
    \/ DelNotified(1)
    \/ \E ok \in BOOLEAN : CmdReplied(1, ok)

SpecKeys == Init /\ [][NextKeys]_vars

\* An admin's replies in one handler while the same admin's claims are
\* handled in another.
NextSwitch ==
    \/ HandleUserMessage(1, 1, TRUE, "text")
    \/ \E ok \in BOOLEAN : UmReplied(1, ok)
    \/ UmErrorNoticed(1)
    \/ \E ok \in BOOLEAN : ArSent(1, ok)
    \/ \E ok \in BOOLEAN : ArConfirmed(1, ok)
    \/ ArFailed(1)
    \/ \E u \in Users : HandleCallback(2, 1, "reply", u)
    \/ \E ok \in BOOLEAN : CbAnswered(2, ok)
    \/ \E ok \in BOOLEAN : CbEdited(2, ok)

SpecSwitch == Init /\ [][NextSwitch]_vars

\* A deletion of a user's chat in one handler while the user's messages
\* are handled in another.
NextPurge ==
    \/ HandleCallback(1, 1, "confirm_delete", 3)
    \/ \E ok \in BOOLEAN : CbAnswered(1, ok)
    \/ \E ok \in BOOLEAN : DelDeleted(1, ok)
    \/ \E ok \in BOOLEAN : DelEdited(1, ok)
    \/ DelNotified(1)
    \/ HandleUserMessage(2, 3, FALSE, "text")
    \/ \E ok \in BOOLEAN : UmNotified(2, ok)
    \/ \E ok \in BOOLEAN : UmReplied(2, ok)
    \/ UmErrorNoticed(2)

SpecPurge == Init /\ [][NextPurge]_vars

\* ------------------------------------------------------------------ claims
\* C1.  Rate window correctness: an attempt is admitted exactly when fewer
\* than MaxMessages admissions of the same user lie in the TimeWindow ticks
\* before it.  recent_admits holds those admissions (it forgets an admission
\* when it becomes TimeWindow old, whatever the limiter's own list does), so
\* a denial must find it full, and an admission must leave it within the
\* limit.
RateWindowCorrect ==
    /\ ev.name = "throttled" => Len(recent_admits[ev.who]) >= MaxMessages
    /\ ev.name = "relay_started" => Len(recent_admits[ev.who]) <= MaxMessages

\* A user is turned away with a full window after time has passed, while
\* the other user's window is not full.
RateWindowWitness ==
    /\ ev.name = "throttled"
    /\ now > 0
    /\ Len(recent_admits[ev.who]) = MaxMessages
    /\ \E u \in Users : Len(recent_admits[u]) < MaxMessages

\* C2.  Unbind-on-failure: when the send of an operator's reply to the
\* route's target has failed and the handler has finished, the operator has
\* no route, and no send of that handler is pending (it is not retried).
UnbindOnFailure ==
    (ev.name = "reply_aborted" /\ ev.out = "send_failed") =>
        /\ ~DictHas(admin_reply_targets, ev.who)
        /\ \A s \in Slots : tasks[s].who = ev.who => tasks[s].pc # "ar_send"

\* The operator was bound (the timestamp of the claim is still there), the
\* send failed, and the route is gone.
UnbindOnFailureWitness ==
    /\ ev.name = "reply_aborted"
    /\ ev.out = "send_failed"
    /\ ev.who \in DOMAIN admin_reply_timeouts
    /\ ~DictHas(admin_reply_targets, ev.who)

\* C3.  When the handler of a reply that was delivered to the target has
\* finished, and no timeout sweep or explicit end has taken the route
\* meanwhile (the timestamp of the claim is still there), the operator is
\* still bound to that target and the last audit row is 'replied' for
\* (operator, target).
DeliveredReplyKeepsRoute ==
    (/\ ev.name \in {"reply_confirmed", "reply_aborted"}
     /\ ev.out = "delivered"
     /\ ev.who \in DOMAIN admin_reply_timeouts) =>
        /\ DictGet(admin_reply_targets, ev.who) = ev.arg
        /\ admin_logs # <<>>
        /\ admin_logs[Len(admin_logs)] =
             [admin_id |-> ev.who, action |-> "replied_to_user",
              target_user_id |-> ev.arg]

\* The operator's last delivered reply went over the present route, after the
\* route was claimed, and no more than ReplyTimeout ago.
RecentlyReplied(a) ==
    /\ a \in DOMAIN admin_reply_timeouts
    /\ last_reply_at[a].to = DictGet(admin_reply_targets, a)
    /\ last_reply_at[a].at >= admin_reply_timeouts[a]
    /\ now - last_reply_at[a].at <= ReplyTimeout

\* C4.  A route over which the operator's last reply was delivered no more
\* than ReplyTimeout ago is not removed by a timeout sweep.
RepliedRouteSurvivesSweep ==
    [][\A a \in ADMIN_IDS :
         (/\ ev'.name \in {"timeout_sweep", "periodic_cleanup",
                           "cleanup_command"}
          /\ DictHas(admin_reply_targets, a)
          /\ ~DictHas(admin_reply_targets', a)) => ~RecentlyReplied(a)]_vars

\* C10.  A group message of an operator who has no route changes no store:
\* no session is created or refreshed, no route changes, no audit row and
\* no history row is written.
OperatorChatterIgnored ==
    [][(/\ ev'.name = "group_message_dropped"
        /\ ev'.who \in ADMIN_IDS
        /\ ~DictHas(admin_reply_targets, ev'.who)) =>
          UNCHANGED <<active_users, admin_reply_targets, admin_reply_timeouts,
                      message_history, user_sessions, admin_logs>>]_vars


\* C5.  Route single-ownership: no operator has two routes, and when a claim
\* has bound an operator, the operator's route is the user just claimed,
\* whatever the operator was bound to before.
RouteSingleOwnership ==
    /\ \A i, j \in 1..Len(admin_reply_targets) :
         admin_reply_targets[i][1] = admin_reply_targets[j][1] => i = j
    /\ ev.name = "bound" => DictGet(admin_reply_targets, ev.who) = ev.arg

\* An operator bound to one user has claimed the other user, while the
\* other operator holds a route too.
RebindWitness ==
    /\ ev.name = "bound"
    /\ ev.n \notin {NoId, ev.arg}
    /\ DictGet(admin_reply_targets, ev.who) = ev.arg
    /\ Len(admin_reply_targets) = 2

\* C6.  When delete-history has purged user u, no operator has a route to u.
PurgeUnbindsAllOperators ==
    ev.name = "purged" =>
        \A i \in 1..Len(admin_reply_targets) :
            admin_reply_targets[i][2] # ev.arg

\* The part of the fan-out that concerns the references: when delete-history
\* has purged user u, a deletion was attempted for every stored reference of
\* u (ev.n of them), succeeded + failed is that number, and the history rows
\* and the session of u are gone.
DeleteCounts ==
    ev.name = "purged" =>
        \E s \in Slots :
            /\ tasks[s].pc = "del_edit"
            /\ tasks[s].who = ev.who /\ tasks[s].arg = ev.arg
            /\ tasks[s].ok + tasks[s].bad = ev.n
            /\ Cardinality(tasks[s].tried) = ev.n
            /\ \A h \in message_history : h[1] # ev.arg
            /\ ev.arg \notin DOMAIN active_users

\* C7.  Delete-all fan-out tolerance: when delete-history has purged user u,
\* a deletion was attempted for every stored reference of u, succeeded +
\* failed is their number, and the history rows, the session and every route
\* to u are gone, whatever deletions failed.
DeleteFanOutTolerant ==
    /\ DeleteCounts
    /\ ev.name = "purged" =>
         \A i \in 1..Len(admin_reply_targets) :
             admin_reply_targets[i][2] # ev.arg


\* What the handlers of the operator-only actions (the buttons of the
\* notifications, the admin commands) report: on entry, and at any step.
EntryEvents == {"callback", "callback_rejected", "command",
                "command_rejected", "command_returned", "cleanup_command",
                "cancelled", "nothing_to_cancel", "broadcast_started"}

OperatorEvents ==
    EntryEvents \cup
    {"rejection_answered", "callback_failed", "bound", "ended", "purged",
     "delete_started", "viewed", "edited", "edit_failed", "deleted",
     "delete_failed", "delete_reported", "delete_report_failed",
     "delete_logged", "broadcast_aborted", "broadcast_sent",
     "broadcast_send_failed", "rejection_sent", "command_answered",
     "command_reply_failed"}

\* C8.  Authorization gate: no step of a handler of an operator-only action
\* (a button of the notifications, an admin command) that was invoked by an
\* identity outside ADMIN_IDS changes the rate windows, the sessions, the
\* routes, the route timestamps, the history tables or the audit log.
AuthorizationGate ==
    [][(ev'.who \in Ids \ ADMIN_IDS /\ ev'.name \in OperatorEvents) =>
          UNCHANGED stores]_vars

\* A stranger has been turned away while there were a route, a session and
\* stored message references to lose.
AuthorizationGateWitness ==
    /\ ev.name \in {"callback_rejected", "command_rejected"}
    /\ ev.who \in Ids \ ADMIN_IDS
    /\ admin_reply_targets # <<>>
    /\ DOMAIN active_users # {}
    /\ message_history # {}

\* C9.  Whenever an identity outside ADMIN_IDS has invoked an operator-only
\* action, a rejection response to that identity is on its way.
RejectionReturned ==
    (ev.name \in EntryEvents /\ ev.who \in Ids \ ADMIN_IDS) =>
        \E s \in Slots : /\ tasks[s].who = ev.who
                         /\ tasks[s].pc \in {"cb_reject", "cmd_reject"}


\* The steps in which handle_user_message has called get_user_session.
SessionEvents == {"reply_started", "group_message_dropped",
                  "private_reply_refused", "relay_started"}

\* C11.  Session idempotent creation: a call of get_user_session for a user
\* who has a session keeps the session's active_since and its message ids
\* and sets last_activity to the time of the call, it touches nobody else's
\* session, and in every state last_activity >= active_since.
SessionIdempotentCreation ==
    /\ [](\A u \in DOMAIN active_users :
            active_users[u].last_activity >= active_users[u].active_since)
    /\ [][(ev'.name \in SessionEvents /\ ev'.who \in DOMAIN active_users) =>
            /\ active_users'[ev'.who].active_since =
                 active_users[ev'.who].active_since
            /\ active_users'[ev'.who].message_ids =
                 active_users[ev'.who].message_ids
            /\ active_users'[ev'.who].last_activity = strftime(now)
            /\ \A v \in DOMAIN active_users \ {ev'.who} :
                 /\ v \in DOMAIN active_users'
                 /\ active_users'[v] = active_users[v]]_vars

\* A later call has found the session of an earlier one: the session is
\* older than its last activity, and the call has just returned.
SessionIdempotentWitness ==
    /\ ev.name = "relay_started"
    /\ ev.who \in DOMAIN active_users
    /\ active_users[ev.who].last_activity > active_users[ev.who].active_since
    /\ active_users[ev.who].last_activity = strftime(now)


\* C12.  Sweep monotonicity: a sweep never increases the number of sessions or
\* of routes, and in the state a sweep leaves, the same sweep run again at
\* once (no activity, no time elapsed) returns 0: no admin is expired after
\* a route sweep, and no session is inactive after a session sweep.
SweepMonotone ==
    [][ev'.name \in {"periodic_cleanup", "cleanup_command",
                     "timeout_sweep"} =>
         /\ Cardinality(DOMAIN active_users') <=
              Cardinality(DOMAIN active_users)
         /\ Len(admin_reply_targets') <= Len(admin_reply_targets)
         /\ Cardinality(ExpiredAdmins(admin_reply_timeouts', now')) = 0
         /\ ev'.name \in {"periodic_cleanup", "cleanup_command"} =>
              Cardinality(InactiveUsers(active_users', now')) = 0]_vars

\* Sessions were made and have all been evicted by an earlier sweep, and a
\* later sweep has returned 0.
SweepMonotoneWitness ==
    /\ ev.name = "periodic_cleanup"
    /\ ev.n = 0
    /\ user_sessions # {}
    /\ DOMAIN active_users = {}

\* C13.  The route sweep removes exactly the routes whose timestamp is older
\* than now - ReplyTimeout, leaves the others as they are, and returns the
\* number of routes it removed.
RouteSweepExact ==
    [][ev'.name = "timeout_sweep" =>
         /\ admin_reply_targets' =
              SelectSeq(admin_reply_targets,
                        LAMBDA p : now - admin_reply_timeouts[p[1]]
                                     <= ReplyTimeout)
         /\ ev'.n = Len(admin_reply_targets) - Len(admin_reply_targets')]_vars

\* C14.  The session sweep removes exactly the sessions whose last_activity
\* is more than InactiveThreshold old, leaves the other sessions as they
\* are, returns the number removed, and changes neither the history tables
\* nor the audit log nor any route (the routes that go in the same job are
\* those the route sweep takes, whether their target was evicted or not).
SessionSweepExact ==
    [][ev'.name \in {"periodic_cleanup", "cleanup_command"} =>
         /\ DOMAIN active_users' =
              {u \in DOMAIN active_users :
                 now - active_users[u].last_activity <= InactiveThreshold}
         /\ \A u \in DOMAIN active_users' : active_users'[u] = active_users[u]
         /\ ev'.n = Cardinality(DOMAIN active_users \ DOMAIN active_users')
         /\ UNCHANGED <<message_history, user_sessions, admin_logs>>
         /\ \A i \in 1..Len(admin_reply_targets) :
              now - admin_reply_timeouts[admin_reply_targets[i][1]]
                   <= ReplyTimeout
              => \E j \in 1..Len(admin_reply_targets') :
                   admin_reply_targets'[j] = admin_reply_targets[i]]_vars

\* A sweep has evicted a session, and the route to the evicted user and the
\* user's history rows are still there.
SessionSweepWitness ==
    /\ ev.name \in {"periodic_cleanup", "cleanup_command"}
    /\ ev.n > 0
    /\ \E i \in 1..Len(admin_reply_targets) :
         admin_reply_targets[i][2] \notin DOMAIN active_users
    /\ message_history # {}


\* C15.  In every state each user's rate window holds at most MaxMessages
\* timestamps.
RateWindowBounded ==
    \A u \in Ids : Len(user_messages[u]) <= MaxMessages

\* Both users' windows are full, and a user has just been admitted.
RateWindowBoundedWitness ==
    /\ ev.name = "relay_started"
    /\ \A u \in Users : Len(user_messages[u]) = MaxMessages

\* C16.  A call of is_allowed that returns false leaves every rate window,
\* the caller's included, exactly as it was.
DeniedLeavesWindow ==
    [][ev'.name = "throttled" => user_messages' = user_messages]_vars

\* A user has been denied while the window was full of admissions made at
\* different times.
DeniedLeavesWindowWitness ==
    /\ ev.name = "throttled"
    /\ Len(user_messages[ev.who]) = MaxMessages
    /\ user_messages[ev.who][1] < user_messages[ev.who][MaxMessages]

\* C17.  Starvation freedom: an attempt is denied only while the oldest
\* admission retained in the user's window is less than TimeWindow old, so
\* an attempt made TimeWindow after that admission, or later, is admitted,
\* however many attempts were denied before it.
StarvationFree ==
    ev.name = "throttled" =>
        /\ user_messages[ev.who] # <<>>
        /\ now - user_messages[ev.who][1] < TimeWindow

\* A user has been denied at the last instant at which that can happen: one
\* tick later the oldest retained admission is TimeWindow old.
StarvationFreeWitness ==
    /\ ev.name = "throttled"
    /\ user_messages[ev.who] # <<>>
    /\ now + 1 - user_messages[ev.who][1] = TimeWindow

\* C18.  A message turned away by the rate limiter produces only the
\* throttling notice: the step that turns it away changes no session and
\* leaves the handler at the notice, the handler never goes on to the
\* operator notification or the confirmation, and recording the notice
\* neither creates a session nor changes any session's active_since,
\* last_activity or conversation snapshot.
ThrottledOnlyNotice ==
    [][/\ ev'.name = "throttled" =>
            /\ UNCHANGED <<active_users, user_sessions>>
            /\ \E s \in Slots : /\ tasks'[s].pc = "um_throttle"
                                /\ tasks'[s].who = ev'.who
       /\ \A s \in Slots :
            tasks[s].pc = "um_throttle" =>
              /\ tasks'[s].pc \in {"um_throttle", "um_error", "idle"}
              /\ tasks'[s].sent = FALSE
       /\ ev'.name = "throttle_notice" =>
            /\ DOMAIN active_users' = DOMAIN active_users
            /\ user_sessions' = user_sessions
            /\ \A u \in DOMAIN active_users :
                 /\ active_users'[u].active_since = active_users[u].active_since
                 /\ active_users'[u].last_activity =
                      active_users[u].last_activity
                 /\ active_users'[u].conversation_data =
                      active_users[u].conversation_data]_vars

\* The throttling notice has been sent and recorded after time had passed
\* since the user's last admitted message: the session was not refreshed.
ThrottledOnlyNoticeWitness ==
    /\ ev.name = "throttle_notice"
    /\ ev.who \in DOMAIN active_users
    /\ active_users[ev.who].last_activity < strftime(now)

\* C19.  When the notification to the group has failed, the handler turns to
\* fallback notices for the operators before it acknowledges to the user.
NotifyFailureFansOut ==
    ev.name = "notify_failed" =>
        \E s \in Slots : /\ tasks[s].who = ev.who
                         /\ tasks[s].pc # "um_ack"

\* C20.  A failed notification to the group does not stop the handler: the
\* acknowledgement is sent next, and when it has been sent it is recorded in
\* the history table under its message id.
AckAfterNotifyFailure ==
    /\ [](ev.name = "notify_failed" =>
            \E s \in Slots : /\ tasks[s].who = ev.who
                             /\ tasks[s].pc = "um_ack"
                             /\ ~tasks[s].sent)
    /\ [][(ev'.name = "acknowledged" /\ ev'.out = "not_notified") =>
              /\ \E s \in Slots : /\ tasks[s].pc = "um_ack"
                                  /\ tasks[s].who = ev'.who
                                  /\ ~tasks[s].sent
                                  /\ tasks'[s].pc = "idle"
              /\ <<ev'.who, next_message_id>> \in message_history'
              /\ <<ev'.who, next_message_id>> \notin message_history]_vars

\* The acknowledgement of a message whose notification had failed has been
\* sent, and its message id is in the user's history.
AckAfterNotifyFailureWitness ==
    /\ ev.name = "acknowledged"
    /\ ev.out = "not_notified"
    /\ <<ev.who, next_message_id - 1>> \in message_history


\* C21.  A failure of the durable sink does not alter the relay: after a
\* delivered reply whose audit append failed the operator is still bound to
\* the target, and an admitted message whose session row could not be
\* written is on its way to the operators.
SinkFailureKeepsRelay ==
    /\ (ev.name = "reply_log_failed" /\ ev.out = "delivered") =>
          DictGet(admin_reply_targets, ev.who) = ev.arg
    /\ ev.name = "persist_failed" =>
          \E s \in Slots : /\ tasks[s].who = ev.who
                           /\ tasks[s].pc = "um_notify"


\* C22.  Every state-changing operator action leaves an audit row naming the
\* operator: when the handler of a claim or of an end of reply mode that
\* has changed the routes finishes, it has appended a row with the
\* operator's id.
OperatorActionsAudited ==
    [][\A s \in Slots :
         (/\ tasks[s].pc = "cb_edit"
          /\ tasks[s].data \in {"reply", "end_reply"}
          /\ tasks'[s].pc = "idle") =>
            /\ Len(admin_logs') = Len(admin_logs) + 1
            /\ admin_logs'[Len(admin_logs')].admin_id = tasks[s].who]_vars


\* C23.  The audit log is append-only: every step leaves it as it was or adds
\* one row at its end, the rows before staying the same and in their order.
AuditAppendOnly ==
    [][\/ admin_logs' = admin_logs
       \/ /\ Len(admin_logs') = Len(admin_logs) + 1
          /\ SubSeq(admin_logs', 1, Len(admin_logs)) = admin_logs]_vars

\* A delete-history has been logged after a reply: the row of the reply is
\* still the first, and the history rows of the user are gone.
AuditAppendOnlyWitness ==
    /\ ev.name = "delete_logged"
    /\ Len(admin_logs) = 2
    /\ admin_logs[1].action = "replied_to_user"
    /\ admin_logs[2].action = "deleted_user_chat"
    /\ \A h \in message_history : h[1] # ev.arg


\* C24.  A broadcast that has started goes on, send after send, to the report
\* of its tally, whatever happens to the sessions meanwhile, and when it
\* reports, succeeded + failed is the number of sessions it visited.
BroadcastTallies ==
    [][\A s \in Slots :
         tasks[s].pc = "bc_loop" =>
           /\ tasks'[s].pc \in {"bc_loop", "cmd_reply"}
           /\ tasks'[s].pc = "cmd_reply" =>
                /\ tasks'[s].rows = <<>>
                /\ tasks'[s].ok + tasks'[s].bad =
                     tasks[s].ok + tasks[s].bad + Len(tasks[s].rows)]_vars


\* C25.  Single-key operations are atomic under overlapping updates: however
\* the handlers of one user's messages interleave, no more than MaxMessages
\* of them are admitted within a window, and a session that exists keeps
\* its active_since and the message ids recorded in it (a second first
\* message does not make the session anew).
OverlapAtomic ==
    /\ [](\A u \in Ids : Len(recent_admits[u]) <= MaxMessages)
    /\ [][\A u \in DOMAIN active_users :
            /\ u \in DOMAIN active_users'
            /\ active_users'[u].active_since = active_users[u].active_since
            /\ Len(active_users'[u].message_ids) >=
                 Len(active_users[u].message_ids)]_vars

\* Two handlers of the same user are in flight, both admitted, the second a
\* second after the first made the session, and the window is full.
OverlapAtomicWitness ==
    /\ ev.name = "relay_started"
    /\ \A s \in Slots : /\ tasks[s].who = ev.who
                        /\ tasks[s].pc \in {"um_notify", "um_ack"}
    /\ Len(recent_admits[ev.who]) = MaxMessages
    /\ active_users[ev.who].last_activity > active_users[ev.who].active_since


\* The operator has exactly one route entry, to the user, and a timestamp
\* equal to t.
BoundFresh(targets, timeouts, a, u, t) ==
    /\ Cardinality({i \in 1..Len(targets) : targets[i][1] = a}) = 1
    /\ DictGet(targets, a) = u
    /\ a \in DOMAIN timeouts
    /\ timeouts[a] = t

\* C26.  A timeout sweep racing with a claim of the same operator resolves
\* cleanly in either order: a claim's write leaves the operator bound to the
\* claimed user with bound_at the time of the claim and one entry in each
\* map, whatever the sweep did before it, and a sweep that runs right after
\* the write, while the claim's handler is still in flight, leaves exactly
\* that.
SweepClaimRace ==
    [][/\ ev'.name = "bound" =>
            BoundFresh(admin_reply_targets', admin_reply_timeouts',
                       ev'.who, ev'.arg, now')
       /\ (ev.name = "bound" /\ ev'.name = "timeout_sweep") =>
            BoundFresh(admin_reply_targets', admin_reply_timeouts',
                       ev.who, ev.arg, now')]_vars

\* The sweep has run while a claim written this second waits for its edit,
\* and it removed another operator's expired route.
SweepClaimRaceWitness ==
    /\ ev.name = "timeout_sweep"
    /\ ev.n > 0
    /\ now > 0
    /\ \E s \in Slots :
         /\ tasks[s].pc = "cb_edit"
         /\ tasks[s].data = "reply"
         /\ BoundFresh(admin_reply_targets, admin_reply_timeouts,
                       tasks[s].who, tasks[s].arg, now)


\* C27.  The route of an operator changes only along the state machine: it
\* is set (Unbound->Bound, Bound->Bound) only by a claim of that authorized
\* operator, and it is dropped (Bound->Unbound) only by the operator's end
\* or cancel, by a failed send of the operator's reply to the target, by the
\* removal of the target, or by a timeout sweep; no other step changes it.
RouteStateMachine ==
    [][\A a \in ADMIN_IDS :
         DictGet(admin_reply_targets', a) # DictGet(admin_reply_targets, a) =>
           IF DictHas(admin_reply_targets', a)
           THEN /\ ev'.name = "bound"
                /\ ev'.who = a
                /\ ev'.arg = DictGet(admin_reply_targets', a)
                /\ is_admin(a)
           ELSE \/ ev'.name \in {"ended", "cancelled"} /\ ev'.who = a
                \/ /\ ev'.name = "reply_aborted"
                   /\ ev'.who = a
                   /\ ev'.out = "send_failed"
                \/ /\ ev'.name = "purged"
                   /\ ev'.arg = DictGet(admin_reply_targets, a)
                \/ ev'.name \in {"timeout_sweep", "periodic_cleanup"}]_vars


\* C28.  A recorded reference goes to the session's list only when the user
\* has a live session and to message_history in every case; a delete that
\* starts afterwards selects every reference of the user in message_history,
\* and when it purges, each of them has been tried and none is left.
RecordOutbound ==
    [][/\ ev'.name \in {"throttle_notice", "private_notice", "acknowledged"} =>
            LET u == ev'.who
                id == next_message_id
            IN /\ message_history' = message_history \cup {<<u, id>>}
               /\ IF u \in DOMAIN active_users
                  THEN active_users' =
                         [active_users EXCEPT
                            ![u].message_ids = Append(@, id)]
                  ELSE active_users' = active_users
       /\ ev'.name = "delete_started" =>
            \E s \in Slots :
               /\ tasks'[s].pc = "del_loop"
               /\ {tasks'[s].rows[i] : i \in 1..Len(tasks'[s].rows)} =
                    {h[2] : h \in {r \in message_history : r[1] = ev'.arg}}
       /\ ev'.name = "purged" =>
            /\ \A h \in message_history' : h[1] # ev'.arg
            /\ \E s \in Slots :
                 /\ tasks'[s].pc = "del_edit"
                 /\ \A h \in message_history :
                      h[1] = ev'.arg => h[2] \in tasks'[s].tried]_vars

\* A delete is under way for a user without a session: it selected the
\* references recorded since the session went, and has tried one of them.
RecordOutboundWitness ==
    /\ ev.name \in {"deleted", "delete_failed"}
    /\ ev.arg \notin DOMAIN active_users
    /\ \E s \in Slots : /\ tasks[s].pc = "del_loop"
                        /\ tasks[s].arg = ev.arg
                        /\ tasks[s].tried # {}
                        /\ tasks[s].rows # <<>>


\* C29.  While time advances and the timeout job keeps running, a route is
\* eventually removed unless its operator claims again: a route with
\* bound_at = t, whose timeout falls before the end of the modelled time, is
\* followed by a state where the operator has no route or a later bound_at.
RouteEventuallyRemoved ==
    \A a \in ADMIN_IDS, t \in 0..MaxTime :
       (/\ DictHas(admin_reply_targets, a)
        /\ a \in DOMAIN admin_reply_timeouts
        /\ admin_reply_timeouts[a] = t
        /\ t + ReplyTimeout < MaxTime)
         ~> (\/ ~DictHas(admin_reply_targets, a)
             \/ /\ a \in DOMAIN admin_reply_timeouts
                /\ admin_reply_timeouts[a] > t)

\* The sweep has just removed a route that was claimed and left alone, and
\* no operator has a route now.
RouteEventuallyRemovedWitness ==
    /\ ev.name = "timeout_sweep"
    /\ ev.n > 0
    /\ admin_reply_targets = <<>>
    /\ DOMAIN admin_reply_timeouts = {}
    /\ \A s \in Slots : tasks[s].pc = "idle"


\* C30.  Every operator that has a route has a bound_at timestamp: the keys
\* of admin_reply_targets are among the keys of admin_reply_timeouts.
RouteHasTimestamp ==
    \A a \in SeqKeys(admin_reply_targets) : a \in DOMAIN admin_reply_timeouts

\* An operator who had no route has just claimed, later than the other
\* operator, and both hold a route now.
RouteHasTimestampWitness ==
    /\ ev.name = "bound"
    /\ ev.n = NoId
    /\ now > 0
    /\ SeqKeys(admin_reply_targets) = ADMIN_IDS
    /\ \E a \in ADMIN_IDS : admin_reply_timeouts[a] < now


\* C31.  When the send of an operator's reply fails and the operator's
\* route is by then to another user than the one the reply went to (the
\* operator claimed that user while the reply was under way), the step that
\* ends the failed reply leaves the route as it is.
FailureKeepsNewerRoute ==
    [][(/\ ev'.name = "reply_aborted"
        /\ ev'.out = "send_failed"
        /\ DictHas(admin_reply_targets, ev'.who)
        /\ DictGet(admin_reply_targets, ev'.who) # ev'.arg) =>
          DictGet(admin_reply_targets', ev'.who) =
            DictGet(admin_reply_targets, ev'.who)]_vars


\* C32.  A delete purges from message_history only references whose
\* deletion from the transport it has attempted: every row of the user that
\* the purge removes is among the ids the delete has tried, rows recorded
\* during the deletion loop included.
PurgeOnlyTried ==
    [][ev'.name = "purged" =>
         \A h \in message_history \ message_history' :
            h[1] = ev'.arg =>
              \E s \in Slots : /\ tasks'[s].pc = "del_edit"
                               /\ tasks'[s].arg = ev'.arg
                               /\ h[2] \in tasks'[s].tried]_vars


\* C33.  A row 'replied_to_user' is appended to the audit log only by a
\* step that ends a reply whose message was sent to the target, whatever
\* the kind of the operator's content.
RepliedMeansSent ==
    [][(/\ Len(admin_logs') = Len(admin_logs) + 1
        /\ admin_logs'[Len(admin_logs')].action = "replied_to_user") =>
          /\ ev'.name = "reply_confirmed"
          /\ ev'.who = admin_logs'[Len(admin_logs')].admin_id
          /\ ev'.arg = admin_logs'[Len(admin_logs')].target_user_id
          /\ ev'.out = "delivered"]_vars


====
